---- MODULE Spec2Model ----
(***************************************************************************)
(* The JSON-schema compiler of tools_agent/utils/structured_output.py as a *)
(* state machine.  The recursive descent of _schema_to_type, _resolve_ref  *)
(* and _handle_anyof is run on an explicit call stack, one frame per       *)
(* Python call, so that the order of cache writes and the depth of the     *)
(* recursion are visible.                                                  *)
(*                                                                         *)
(* A schema node is a record whose fields are the JSON keywords the node   *)
(* carries ("$ref" is written ref, "$defs" defs); the keyword "type" is    *)
(* the field type when its value is a string and the field types when its *)
(* value is a list.  A pointer is the sequence of its "/"-separated        *)
(* segments: "#/$defs/A" is <<"#", "$defs", "A">>.                         *)
(*                                                                         *)
(* status, error, stack, model_cache, result and refLog belong to the call *)
(* of create_pydantic_model_from_json_schema that is running; parked holds *)
(* the same six values of the calls that are not running; models is the    *)
(* interpreter's heap of created classes; any_is_class is the interpreter's*)
(* answer to isinstance(Any, type); request is the graph() request and the *)
(* load_schema_model call that asked for the compilation.                  *)
(***************************************************************************)
EXTENDS Integers, Sequences, FiniteSets, TLC

VARIABLES schema_json, model_name, status, error, stack, model_cache,
          models, result, refLog, any_is_class, parked, request

vars == <<schema_json, model_name, status, error, stack, model_cache,
          models, result, refLog, any_is_class, parked, request>>

(***************************************************************************)
(* Bounds of the model.                                                    *)
(***************************************************************************)
RecursionLimit == 16
MinItems == 1
MaxItems == 2
MaxLen == 3
Minimum == 0
Maximum == 4
MultipleOf == 2
MinLength == 1
MaxLength == 2

(***************************************************************************)
(* Python values the compiler passes around.                               *)
(***************************************************************************)
PyNone == [k |-> "pynone"]
PyStr(s) == [k |-> "pystr", s |-> s]
NoneType == [k |-> "NoneType"]
AnyType == [k |-> "Any"]
Builtin(t) == [k |-> "builtin", t |-> t]
Constrained(t, c) == [k |-> "constrained", t |-> t, c |-> c]
ForwardRef(s) == [k |-> "ForwardRef", s |-> s]
ModelRef(id) == [k |-> "model", id |-> id]
Absent == [k |-> "absent"]

IsStr(v) == v.k = "pystr"

\* typing converts a str argument to a ForwardRef and None to NoneType
TypeConvert(v) ==
    IF v.k = "pystr" THEN ForwardRef(v.s)
    ELSE IF v.k = "pynone" THEN NoneType
    ELSE v

RECURSIVE Flatten(_)
Flatten(ts) ==
    IF Len(ts) = 0 THEN <<>>
    ELSE LET h == TypeConvert(Head(ts))
         IN  (IF h.k = "Union" THEN h.args ELSE <<h>>) \o Flatten(Tail(ts))

RECURSIVE Dedupe(_, _)
Dedupe(ts, seen) ==
    IF Len(ts) = 0 THEN <<>>
    ELSE IF \E i \in 1..Len(seen) : seen[i] = Head(ts)
         THEN Dedupe(Tail(ts), seen)
         ELSE <<Head(ts)>> \o Dedupe(Tail(ts), Append(seen, Head(ts)))

\* typing.Union[tuple(ts)] for a non-empty ts: flattened, duplicates removed,
\* a single remaining argument returned bare
UnionOf(ts) ==
    LET args == Dedupe(Flatten(ts), <<>>)
    IN  IF Len(args) = 1 THEN args[1] ELSE [k |-> "Union", args |-> args]

OptionalOf(t) == UnionOf(<<t, NoneType>>)

ListOf(t) == [k |-> "List", item |-> TypeConvert(t)]

LiteralOf(vals) == [k |-> "Literal", values |-> vals]

(***************************************************************************)
(* Reading a schema node.                                                  *)
(***************************************************************************)
Has(nd, kw) == kw \in DOMAIN nd

NoType == "<None>"

SchemaType(nd) == IF Has(nd, "type") THEN nd.type ELSE NoType

Properties(nd) == IF Has(nd, "properties") THEN nd.properties ELSE <<>>

Required(nd) == IF Has(nd, "required") THEN nd.required ELSE {}

Items(nd) == IF Has(nd, "items") THEN nd.items ELSE <<>>

Defs(doc) == IF Has(doc, "defs") THEN doc.defs ELSE <<>>

RootPointer == <<"#">>

IsDefsPointer(ref) == Len(ref) >= 3 /\ ref[1] = "#" /\ ref[2] = "$defs"

DefName(ref) == ref[Len(ref)]

(***************************************************************************)
(* The constraint extractors.                                              *)
(***************************************************************************)
Pick(nd, kw, as) == IF Has(nd, kw) THEN (as :> nd[kw]) ELSE <<>>

_get_array_constraints(field_info) ==
    Pick(field_info, "minItems", "min_length") @@
    Pick(field_info, "maxItems", "max_length")

KnownFormats == {"email", "uuid", "date", "date-time", "time", "ipv4"}

\* the regular expression the code substitutes for a known format
FormatPattern(fmt) == "<" \o fmt \o "-regex>"

_get_string_constraints(field_info) ==
    (IF Has(field_info, "format") /\ field_info.format \in KnownFormats
     THEN ("pattern" :> FormatPattern(field_info.format))
     ELSE Pick(field_info, "pattern", "pattern")) @@
    Pick(field_info, "minLength", "min_length") @@
    Pick(field_info, "maxLength", "max_length")

_get_number_constraints(field_info) ==
    Pick(field_info, "minimum", "ge") @@
    Pick(field_info, "maximum", "le") @@
    Pick(field_info, "exclusiveMinimum", "gt") @@
    Pick(field_info, "exclusiveMaximum", "lt") @@
    Pick(field_info, "multipleOf", "multiple_of")

(***************************************************************************)
(* The schema documents the compiler is run on.                            *)
(***************************************************************************)
DefNames == {"A", "B"}

ModelNames == {"R"}

Pointers ==
    {RootPointer} \cup {<<"#", "$defs", n>> : n \in DefNames \cup ModelNames}

StringNode == [type |-> "string"]
NullNode == [type |-> "null"]
RefNode(p) == [ref |-> p]
ArrayNode(items) == [type |-> "array", items |-> items]
BoundedArrayNode(items) ==
    [type |-> "array", items |-> items, minItems |-> MinItems, maxItems |-> MaxItems]
AnyOfNode(alts) == [anyOf |-> alts]
ObjectNode(props, req) ==
    [type |-> "object", properties |-> props, required |-> req]
Prop(n, s) == [name |-> n, schema |-> s]

\* nodes without children
LeafNodes ==
    { StringNode,
      [type |-> "foo"],
      <<>>,
      [types |-> <<"string", "null">>],
      [types |-> <<"foo">>],
      [types |-> <<>>],
      [enum |-> <<"F", "C">>] }

RefNodes == {RefNode(p) : p \in Pointers}

ArrayNodes ==
    { ArrayNode(StringNode),
      BoundedArrayNode(StringNode),
      ArrayNode(BoundedArrayNode(StringNode)),
      ArrayNode(RefNode(RootPointer)),
      ArrayNode(RefNode(<<"#", "$defs", "A">>)) }

AnyOfNodes ==
    { AnyOfNode(<<RefNode(<<"#", "$defs", "A">>), NullNode>>),
      AnyOfNode(<<BoundedArrayNode(StringNode), NullNode>>),
      AnyOfNode(<<ObjectNode(<<Prop("x", StringNode)>>, {"x"}), StringNode>>) }

\* the schemas a property of the root may have
PropertyNodes == LeafNodes \cup RefNodes \cup ArrayNodes \cup AnyOfNodes

\* the bodies of a definition: t is the definition it refers to
DefBodies(t) ==
    LET r == RefNode(<<"#", "$defs", t>>)
    IN  { ObjectNode(<<Prop("x", r)>>, {"x"}),
          ObjectNode(<<Prop("x", AnyOfNode(<<r, NullNode>>))>>, {}),
          ObjectNode(<<Prop("x", ArrayNode(r))>>, {"x"}),
          BoundedArrayNode(r),
          AnyOfNode(<<r, NullNode>>) }

\* no definition, A alone (referring to itself or to a missing B), or A and B
\* with B referring to A
DefTables ==
    {<<>>} \cup {("A" :> a) : a \in {StringNode} \cup DefBodies("A") \cup DefBodies("B")}
           \cup {("A" :> a) @@ ("B" :> b) :
                    a \in {StringNode} \cup DefBodies("A") \cup DefBodies("B"),
                    b \in {StringNode} \cup DefBodies("A")}

\* two inline objects that are given the same generated name
CollidingRoots ==
    { ObjectNode(<<Prop("p", ArrayNode(ObjectNode(<<Prop("x", StringNode)>>, {"x"}))),
                   Prop("pItem", ObjectNode(<<Prop("y", StringNode)>>, {}))>>, {"p"}) }

RootNodes ==
    {ObjectNode(<<Prop("p", s)>>, req) :
        s \in PropertyNodes, req \in {{}, {"p"}}}
    \cup {ObjectNode(<<Prop("p", s), Prop("q", RefNode(<<"#", "$defs", "A">>))>>, {"p"}) :
        s \in PropertyNodes}
    \cup CollidingRoots
    \cup ArrayNodes \cup AnyOfNodes
    \cup {StringNode, RefNode(RootPointer), RefNode(<<"#", "$defs", "A">>)}

Documents ==
    {IF DOMAIN d = {} THEN r ELSE r @@ [defs |-> d] :
        r \in RootNodes, d \in DefTables}

\* nodes declared integer or number, by "type" or in a "type" list, with
\* numeric keywords
NumberNodes ==
    {[type |-> t, minimum |-> Minimum, maximum |-> Maximum, multipleOf |-> MultipleOf] :
        t \in {"integer", "number"}}
    \cup {[type |-> "integer", multipleOf |-> MultipleOf],
          [type |-> "integer", minimum |-> Minimum, maximum |-> Maximum],
          [type |-> "integer"],
          [types |-> <<"integer", "null">>,
           minimum |-> Minimum, maximum |-> Maximum, multipleOf |-> MultipleOf]}

\* one string node for every combination of the string keywords; "hostname"
\* is a format the code has no pattern for
StringNodes ==
    {StringNode @@ p @@ f @@ lo @@ hi :
        p \in {<<>>, [pattern |-> "^[A-Z]+$"]},
        f \in {<<>>, [format |-> "email"], [format |-> "hostname"]},
        lo \in {<<>>, [minLength |-> MinLength]},
        hi \in {<<>>, [maxLength |-> MaxLength]}}

\* enum nodes that carry other keywords as well
EnumNodes ==
    {[enum |-> <<"F", "C">>, type |-> "string"],
     [enum |-> <<"F", "C">>, type |-> "string", pattern |-> "^K$", minLength |-> MinLength],
     [enum |-> <<"C", "F">>, type |-> "integer", minimum |-> Minimum],
     [enum |-> <<"K">>, type |-> "array", minItems |-> MinItems]}

\* anyOf lists of null and one other alternative, null first
NullFirstNodes ==
    {AnyOfNode(<<NullNode, s>>) :
        s \in {StringNode, <<>>, [types |-> <<"string", "null">>],
               [type |-> "integer", minimum |-> Minimum],
               ObjectNode(<<Prop("x", StringNode)>>, {"x"})}}

ValidationNodes == NumberNodes \cup StringNodes \cup EnumNodes \cup NullFirstNodes

\* documents without definitions: an object with one validated property
ValidationDocuments ==
    {ObjectNode(<<Prop("p", s)>>, req) : s \in ValidationNodes, req \in {{}, {"p"}}}

\* the part of a node that decides how it is compiled: the first of "$ref",
\* "anyOf", "enum" and "type" that the node carries
Earliest(nd) ==
    IF Has(nd, "ref") THEN [ref |-> nd.ref]
    ELSE IF Has(nd, "anyOf") THEN [anyOf |-> nd.anyOf]
    ELSE IF Has(nd, "enum") THEN [enum |-> nd.enum]
    ELSE nd

\* nodes that carry several of the keywords a node is compiled by
MixedNodes ==
    LET A == <<"#", "$defs", "A">>
    IN  { [ref |-> A, type |-> "object",
           properties |-> <<Prop("x", StringNode)>>, required |-> {"x"}],
          [ref |-> A, anyOf |-> <<StringNode, NullNode>>, enum |-> <<"F">>],
          [ref |-> A, type |-> "array", items |-> StringNode],
          [anyOf |-> <<StringNode, NullNode>>, enum |-> <<"F", "C">>],
          [anyOf |-> <<RefNode(A), NullNode>>, type |-> "string", pattern |-> "^K$"],
          [anyOf |-> <<StringNode, NullNode>>, types |-> <<"integer">>],
          [enum |-> <<"F", "C">>, type |-> "object",
           properties |-> <<Prop("x", StringNode)>>, required |-> {"x"}],
          [enum |-> <<"F", "C">>, types |-> <<"string", "null">>] }

\* a record with a property of several keywords and a second property that
\* carries the first of them alone
MixedDocuments ==
    {ObjectNode(<<Prop("p", s), Prop("q", Earliest(s))>>, {"p", "q"})
        @@ [defs |-> ("A" :> a)] :
        s \in MixedNodes,
        a \in {StringNode,
               ObjectNode(<<Prop("x", AnyOfNode(<<RefNode(<<"#", "$defs", "A">>),
                                                  NullNode>>))>>, {})}}

\* anyOf lists of one, two equal, three and no alternatives
UnionNodes ==
    { AnyOfNode(<<StringNode>>),
      AnyOfNode(<<NullNode>>),
      AnyOfNode(<<StringNode, StringNode>>),
      AnyOfNode(<<StringNode, [type |-> "integer"], NullNode>>),
      AnyOfNode(<<[types |-> <<"string", "null">>], [type |-> "integer"]>>),
      AnyOfNode(<<>>) }

\* records with such a property, and a definition whose only alternative is
\* the definition itself
UnionDocuments ==
    {ObjectNode(<<Prop("p", s)>>, {"p"}) : s \in UnionNodes}
    \cup {ObjectNode(<<Prop("p", RefNode(<<"#", "$defs", "A">>))>>, {"p"})
            @@ [defs |-> ("A" :> ObjectNode(
                   <<Prop("x", AnyOfNode(<<RefNode(<<"#", "$defs", "A">>)>>))>>, {}))]}

\* pointers that are not '#' and not '#/$defs/<name>': the older keyword, a
\* definition nested in another one, a property of a definition, another
\* document
OtherPointers ==
    { <<"#", "definitions", "A">>,
      <<"#", "$defs", "B", "$defs", "A">>,
      <<"#", "$defs", "A", "properties", "x">>,
      <<"other.json">> }

\* documents with such a pointer, or with the root pointer, as a property or
\* as an alternative
PointerDocuments ==
    {nd @@ [defs |-> ("A" :> ObjectNode(<<Prop("x", StringNode)>>, {"x"}))] :
        nd \in {ObjectNode(<<Prop("p", RefNode(ptr))>>, {"p"}) :
                    ptr \in OtherPointers}
            \cup {ObjectNode(<<Prop("p", AnyOfNode(<<RefNode(ptr), NullNode>>))>>, {"p"}) :
                    ptr \in OtherPointers \cup {RootPointer}}
            \cup {AnyOfNode(<<RefNode(RootPointer), StringNode>>)}}

\* the documents compiled more than once or kept in the store: records,
\* roots that are no record, a recursive definition, and documents that fail
ServiceDocuments ==
    {ObjectNode(<<Prop("p", s)>>, {}) :
        s \in {StringNode, [enum |-> <<"F", "C">>], [types |-> <<"string", "null">>],
               [types |-> <<>>], RefNode(<<"#", "$defs", "B">>),
               [type |-> "integer", minimum |-> Minimum]}}
    \cup CollidingRoots
    \cup {StringNode, <<>>, ArrayNode(StringNode)}
    \cup {ObjectNode(<<Prop("p", AnyOfNode(<<RefNode(<<"#", "$defs", "A">>), NullNode>>))>>,
                     {"p"})
             @@ [defs |-> ("A" :> a)] :
          a \in {ObjectNode(<<Prop("x", AnyOfNode(<<RefNode(<<"#", "$defs", "A">>),
                                                    NullNode>>))>>, {}),
                 ArrayNode(RefNode(<<"#", "$defs", "A">>))}}

(***************************************************************************)
(* The call stack.  A frame is one Python call: fn is the function, node   *)
(* its schema (for _resolve_ref the node holding the pointer), name its    *)
(* type_name / base_name, pc where the call stands, i the 1-based loop     *)
(* index, acc the fields or types collected so far, fwd has_forward_ref,   *)
(* ret the value the last nested call returned.  A frame at "tail" returns *)
(* whatever its callee returns.                                            *)
(***************************************************************************)
Frame(fn, node, name, pc) ==
    [fn |-> fn, node |-> node, name |-> name, pc |-> pc, i |-> 1,
     acc |-> <<>>, fwd |-> FALSE, ret |-> Absent]

Top == stack[Len(stack)]

Rest == SubSeq(stack, 1, Len(stack) - 1)

Running == status = "compiling" /\ Len(stack) > 0

At(fn, pc) == Running /\ Top.fn = fn /\ Top.pc = pc

CacheEntry(cache, name) == IF name \in DOMAIN cache THEN cache[name] ELSE Absent

\* refLog records every _resolve_ref call that returned: the definition named,
\* the value returned, and the cache entry under that name at the return
Resolution(fr, v, cache) ==
    [def |-> DefName(fr.node.ref), ret |-> v,
     entry |-> CacheEntry(cache, DefName(fr.node.ref))]

AfterReturn(pc) ==
    CASE pc = "w_field" -> "field"
      [] pc = "w_items" -> "items"
      [] pc = "w_alt" -> "alt"

\* v is returned into stk: the frames at "tail" return it in turn, the first
\* frame that waits for it receives it
RECURSIVE Unwind(_, _, _)
Unwind(stk, v, cache) ==
    IF Len(stk) = 0 THEN [stk |-> <<>>, log |-> <<>>]
    ELSE LET fr == stk[Len(stk)]
             below == SubSeq(stk, 1, Len(stk) - 1)
         IN  IF fr.pc = "tail"
             THEN LET u == Unwind(below, v, cache)
                  IN  [stk |-> u.stk,
                       log |-> (IF fr.fn = "ref" THEN <<Resolution(fr, v, cache)>>
                                                   ELSE <<>>) \o u.log]
             ELSE [stk |-> Append(below, [fr EXCEPT !.ret = v, !.pc = AfterReturn(fr.pc)]),
                   log |-> <<>>]

\* the running call returns v
Return(v, cache) ==
    LET u == Unwind(Append(Rest, [Top EXCEPT !.pc = "tail"]), v, cache)
    IN  /\ stack' = u.stk
        /\ refLog' = refLog \o u.log
        /\ IF Len(u.stk) = 0
           THEN status' = "compiled" /\ result' = v
           ELSE UNCHANGED <<status, result>>
        /\ UNCHANGED error

\* the running call raises: the exception unwinds every frame
Raise(kind) ==
    /\ stack' = <<>>
    /\ status' = "raised"
    /\ error' = kind
    /\ UNCHANGED <<result, refLog>>

\* the running call, left at pc, calls fr; the interpreter's recursion limit
\* turns a call chain that is too deep into a RecursionError
Call(fr, pc) ==
    LET stk == Append(Append(Rest, [Top EXCEPT !.pc = pc]), fr)
    IN  IF Len(stk) > RecursionLimit
        THEN Raise("RecursionError")
        ELSE /\ stack' = stk
             /\ UNCHANGED <<status, error, result, refLog>>

\* the running call goes on in its own frame
Step(fr) ==
    /\ stack' = Append(Rest, fr)
    /\ UNCHANGED <<status, error, result, refLog>>

(***************************************************************************)
(* _schema_to_type: the branch a node is compiled by.                      *)
(***************************************************************************)
\* a faulty variant: the declared type is looked at first
DispatchTypeFirst(nd) ==
    IF SchemaType(nd) = "object" THEN "object"
    ELSE IF SchemaType(nd) = "array" THEN "array"
    ELSE IF Has(nd, "types") THEN "typelist"
    ELSE IF Has(nd, "ref") THEN "ref"
    ELSE IF Has(nd, "anyOf") THEN "anyOf"
    ELSE IF Has(nd, "enum") THEN "enum"
    ELSE "primitive"

Dispatch(nd) ==
    IF Has(nd, "ref") THEN "ref"
    ELSE IF Has(nd, "anyOf") THEN "anyOf"
    ELSE IF Has(nd, "enum") THEN "enum"
    ELSE IF Has(nd, "types") THEN "typelist"
    ELSE IF SchemaType(nd) = "object" THEN "object"
    ELSE IF SchemaType(nd) = "array" THEN "array"
    ELSE "primitive"

\* no graph() request: create_pydantic_model_from_json_schema is called
\* directly, as the tests do
DirectCall == [pc |-> "direct"]

Init ==
    /\ schema_json \in Documents \cup ValidationDocuments \cup MixedDocuments
                       \cup UnionDocuments \cup PointerDocuments
    /\ model_name \in ModelNames
    /\ status = "idle"
    /\ error = "none"
    /\ stack = <<>>
    /\ model_cache = <<>>
    /\ models = <<>>
    /\ result = Absent
    /\ refLog = <<>>
    /\ any_is_class = "unknown"
    /\ parked = <<>>
    /\ request = DirectCall

\* a faulty variant: "$defs" is taken out of the document with pop
CreatePopsDefs ==
    /\ status = "idle"
    /\ status' = "compiling"
    /\ model_cache' = <<>>
    /\ stack' = <<Frame("s2t", schema_json, model_name, "start")>>
    /\ schema_json' = [kw \in DOMAIN schema_json \ {"defs"} |-> schema_json[kw]]
    /\ UNCHANGED <<any_is_class, parked, request, model_name, error, models, result, refLog>>

\* create_pydantic_model_from_json_schema, up to the call of _schema_to_type
Create ==
    /\ status = "idle"
    /\ status' = "compiling"
    /\ model_cache' = <<>>
    /\ stack' = <<Frame("s2t", schema_json, model_name, "start")>>
    /\ UNCHANGED <<any_is_class, parked, request, schema_json, model_name, error,
                   models, result, refLog>>

S2TRef ==
    /\ At("s2t", "start")
    /\ Dispatch(Top.node) = "ref"
    /\ IF Top.node.ref = RootPointer
       THEN Return(PyStr(Top.name), model_cache)
       ELSE Call(Frame("ref", Top.node, "", "start"), "tail")
    /\ UNCHANGED <<any_is_class, parked, request, schema_json, model_name, model_cache, models>>

\* a faulty variant: the pending marker itself is returned for a name under
\* construction
ResolveRefReturnsMarker ==
    /\ At("ref", "start")
    /\ LET ref == Top.node.ref
           def_name == DefName(ref)
           defs == Defs(schema_json)
       IN  IF ref = RootPointer THEN Raise("RootRecursion")
           ELSE IF ~IsDefsPointer(ref) THEN Raise("UnsupportedRef")
           ELSE IF def_name \in DOMAIN model_cache
                THEN Return(model_cache[def_name], model_cache)
           ELSE IF def_name \notin DOMAIN defs THEN Raise("DefinitionNotFound")
           ELSE Call(Frame("s2t", defs[def_name], def_name, "start"), "tail")
    /\ UNCHANGED <<any_is_class, parked, request, schema_json, model_name, model_cache, models>>

ResolveRef ==
    /\ At("ref", "start")
    /\ LET ref == Top.node.ref
           def_name == DefName(ref)
           defs == Defs(schema_json)
       IN  IF ref = RootPointer THEN Raise("RootRecursion")
           ELSE IF ~IsDefsPointer(ref) THEN Raise("UnsupportedRef")
           ELSE IF def_name \in DOMAIN model_cache
                THEN IF model_cache[def_name] = PyNone
                     THEN Return(PyStr(def_name), model_cache)
                     ELSE Return(model_cache[def_name], model_cache)
           ELSE IF def_name \notin DOMAIN defs THEN Raise("DefinitionNotFound")
           ELSE Call(Frame("s2t", defs[def_name], def_name, "start"), "tail")
    /\ UNCHANGED <<any_is_class, parked, request, schema_json, model_name, model_cache, models>>

S2TAnyOf ==
    /\ At("s2t", "start")
    /\ Dispatch(Top.node) = "anyOf"
    /\ Call(Frame("anyof", Top.node, Top.name, "loop"), "tail")
    /\ UNCHANGED <<any_is_class, parked, request, schema_json, model_name, model_cache, models>>

\* _handle_anyof: one pass of the loop, up to the call it makes
AnyOfStep ==
    /\ At("anyof", "loop")
    /\ Top.i <= Len(Top.node.anyOf)
    /\ LET schema == Top.node.anyOf[Top.i]
           i == ToString(Top.i - 1)
       IN  IF SchemaType(schema) = "null"
           THEN Step([Top EXCEPT !.acc = Append(@, NoneType), !.i = @ + 1])
           ELSE IF SchemaType(schema) = "object"
           THEN Call(Frame("s2t", schema, Top.name \o "Option" \o i, "start"), "w_alt")
           ELSE IF Has(schema, "ref")
           THEN Call(Frame("ref", schema, "", "start"), "w_alt")
           ELSE Call(Frame("s2t", schema, Top.name \o "_" \o i, "start"), "w_alt")
    /\ UNCHANGED <<any_is_class, parked, request, schema_json, model_name, model_cache, models>>

\* _handle_anyof: the alternative's type has come back
AnyOfGot ==
    /\ At("anyof", "alt")
    /\ Step([Top EXCEPT !.acc = Append(@, Top.ret),
                        !.fwd = @ \/ IsStr(Top.ret),
                        !.i = @ + 1,
                        !.pc = "loop"])
    /\ UNCHANGED <<any_is_class, parked, request, schema_json, model_name, model_cache, models>>

\* a faulty variant: with a forward reference among the alternatives, the
\* forward name alone is returned
AnyOfFinishReturnsForwardName ==
    /\ At("anyof", "loop")
    /\ Top.i > Len(Top.node.anyOf)
    /\ LET types == Top.acc
       IN  IF Len(types) = 1 THEN Return(types[1], model_cache)
           ELSE IF Len(types) = 0 THEN Raise("TypeError")
           ELSE IF Top.fwd
           THEN Return(CHOOSE s \in {types[j] : j \in 1..Len(types)} : IsStr(s),
                       model_cache)
           ELSE Return(UnionOf(types), model_cache)
    /\ UNCHANGED <<any_is_class, parked, request, schema_json, model_name, model_cache, models>>

\* a faulty variant: a single alternative is put into a Union like the others
AnyOfFinishNoSingleCase ==
    /\ At("anyof", "loop")
    /\ Top.i > Len(Top.node.anyOf)
    /\ LET types == Top.acc
       IN  IF Len(types) = 0 THEN Raise("TypeError")
           ELSE Return(UnionOf(types), model_cache)
    /\ UNCHANGED <<any_is_class, parked, request, schema_json, model_name, model_cache, models>>

\* _handle_anyof: after the loop
AnyOfFinish ==
    /\ At("anyof", "loop")
    /\ Top.i > Len(Top.node.anyOf)
    /\ LET types == Top.acc
       IN  IF Len(types) = 1 THEN Return(types[1], model_cache)
           ELSE IF Len(types) = 0 THEN Raise("TypeError")
           ELSE IF Top.fwd
           THEN Return(UnionOf([j \in 1..Len(types) |->
                                   IF IsStr(types[j]) THEN ForwardRef(types[j].s)
                                                      ELSE types[j]]),
                       model_cache)
           ELSE Return(UnionOf(types), model_cache)
    /\ UNCHANGED <<any_is_class, parked, request, schema_json, model_name, model_cache, models>>

\* a faulty variant: the declared type is looked at before the enum
S2TEnumByType ==
    /\ At("s2t", "start")
    /\ Dispatch(Top.node) = "enum"
    /\ Return(IF Has(Top.node, "type") THEN AnyType ELSE LiteralOf(Top.node.enum),
              model_cache)
    /\ UNCHANGED <<any_is_class, parked, request, schema_json, model_name, model_cache, models>>

S2TEnum ==
    /\ At("s2t", "start")
    /\ Dispatch(Top.node) = "enum"
    /\ Return(LiteralOf(Top.node.enum), model_cache)
    /\ UNCHANGED <<any_is_class, parked, request, schema_json, model_name, model_cache, models>>

KindType(t) ==
    CASE t = "null" -> <<NoneType>>
      [] t = "string" -> <<Builtin("str")>>
      [] t = "integer" -> <<Builtin("int")>>
      [] t = "number" -> <<Builtin("float")>>
      [] t = "boolean" -> <<Builtin("bool")>>
      [] t = "array" -> <<Builtin("list")>>
      [] t = "object" -> <<Builtin("dict")>>
      [] OTHER -> <<>>

RECURSIVE KindTypes(_)
KindTypes(ts) ==
    IF Len(ts) = 0 THEN <<>> ELSE KindType(Head(ts)) \o KindTypes(Tail(ts))

\* "type" given as a list
S2TTypeList ==
    /\ At("s2t", "start")
    /\ Dispatch(Top.node) = "typelist"
    /\ LET types == KindTypes(Top.node.types)
       IN  IF Len(types) > 1 THEN Return(UnionOf(types), model_cache)
           ELSE IF Len(types) = 0 THEN Raise("IndexError")
           ELSE Return(types[1], model_cache)
    /\ UNCHANGED <<any_is_class, parked, request, schema_json, model_name, model_cache, models>>

\* an object whose name is in the cache already
S2TObjectCached ==
    /\ At("s2t", "start")
    /\ Dispatch(Top.node) = "object"
    /\ Top.name \in DOMAIN model_cache
    /\ Return(model_cache[Top.name], model_cache)
    /\ UNCHANGED <<any_is_class, parked, request, schema_json, model_name, model_cache, models>>

\* a faulty variant: no placeholder is written before the properties
S2TObjectEnterNoPlaceholder ==
    /\ At("s2t", "start")
    /\ Dispatch(Top.node) = "object"
    /\ Top.name \notin DOMAIN model_cache
    /\ Step([Top EXCEPT !.pc = "props"])
    /\ UNCHANGED <<any_is_class, parked, request, schema_json, model_name, model_cache, models>>

\* an object under a new name: the placeholder is written
S2TObjectEnter ==
    /\ At("s2t", "start")
    /\ Dispatch(Top.node) = "object"
    /\ Top.name \notin DOMAIN model_cache
    /\ model_cache' = (Top.name :> PyNone) @@ model_cache
    /\ Step([Top EXCEPT !.pc = "props"])
    /\ UNCHANGED <<any_is_class, parked, request, schema_json, model_name, models>>

\* a faulty variant: the property is compiled under its own name alone
S2TPropCallPlainName ==
    /\ At("s2t", "props")
    /\ Top.i <= Len(Properties(Top.node))
    /\ LET p == Properties(Top.node)[Top.i]
       IN  Call(Frame("s2t", p.schema, p.name, "start"), "w_field")
    /\ UNCHANGED <<any_is_class, parked, request, schema_json, model_name, model_cache, models>>

\* the next property is compiled
S2TPropCall ==
    /\ At("s2t", "props")
    /\ Top.i <= Len(Properties(Top.node))
    /\ LET p == Properties(Top.node)[Top.i]
       IN  Call(Frame("s2t", p.schema, Top.name \o "_" \o p.name, "start"), "w_field")
    /\ UNCHANGED <<any_is_class, parked, request, schema_json, model_name, model_cache, models>>

Description(field_info) ==
    IF Has(field_info, "description") THEN field_info.description ELSE ""

\* a faulty variant: every field is treated as required
MakeFieldAllRequired(type_name, schema, field_name, field_info, compiled) ==
    LET field_type == IF IsStr(compiled) /\ compiled.s = type_name
                      THEN PyStr("'" \o type_name \o "'")
                      ELSE compiled
        field_kwargs == (IF SchemaType(field_info) = "array"
                         THEN _get_array_constraints(field_info)
                         ELSE <<>>) @@ ("description" :> Description(field_info))
    IN  [name |-> field_name,
         inner |-> field_type,
         type |-> field_type,
         default |-> "Ellipsis",
         kwargs |-> field_kwargs]

\* the field the loop body builds from the compiled type of a property; inner
\* is field_type as it stands before the required/optional branch
MakeField(type_name, schema, field_name, field_info, compiled) ==
    LET is_required == field_name \in Required(schema)
        field_type == IF IsStr(compiled) /\ compiled.s = type_name
                      THEN PyStr("'" \o type_name \o "'")
                      ELSE compiled
        field_kwargs == (IF SchemaType(field_info) = "array"
                         THEN _get_array_constraints(field_info)
                         ELSE <<>>) @@ ("description" :> Description(field_info))
    IN  [name |-> field_name,
         inner |-> field_type,
         type |-> IF is_required THEN field_type ELSE OptionalOf(field_type),
         default |-> IF is_required THEN "Ellipsis" ELSE "None",
         kwargs |-> field_kwargs]

\* the property's type has come back: the field is built
S2TFieldDone ==
    /\ At("s2t", "field")
    /\ LET p == Properties(Top.node)[Top.i]
       IN  Step([Top EXCEPT
                   !.acc = Append(@, MakeField(Top.name, Top.node, p.name, p.schema, Top.ret)),
                   !.i = @ + 1,
                   !.pc = "props"])
    /\ UNCHANGED <<any_is_class, parked, request, schema_json, model_name, model_cache, models>>

\* a faulty variant: the class name is made unique with a serial number
NewModelNumbered(type_name, fields) ==
    [name |-> type_name \o ToString(Len(models)), fields |-> fields, rebuilt |-> 0]

\* create_model: a new class with the given fields
NewModel(type_name, fields) ==
    [name |-> type_name, fields |-> fields, rebuilt |-> 0]

\* a faulty variant: the finished record is returned but not stored
S2TObjectFinishUncached ==
    /\ At("s2t", "props")
    /\ Top.i > Len(Properties(Top.node))
    /\ models' = Append(models, NewModel(Top.name, Top.acc))
    /\ Return(ModelRef(Len(models) + 1), model_cache)
    /\ UNCHANGED <<any_is_class, parked, request, schema_json, model_name, model_cache>>

\* after the last property: the record is created and cached
S2TObjectFinish ==
    /\ At("s2t", "props")
    /\ Top.i > Len(Properties(Top.node))
    /\ LET model == ModelRef(Len(models) + 1)
           cache == (Top.name :> model) @@ model_cache
       IN  /\ models' = Append(models, NewModel(Top.name, Top.acc))
           /\ model_cache' = cache
           /\ Return(model, cache)
    /\ UNCHANGED <<any_is_class, parked, request, schema_json, model_name>>

S2TArrayCall ==
    /\ At("s2t", "start")
    /\ Dispatch(Top.node) = "array"
    /\ Call(Frame("s2t", Items(Top.node), Top.name \o "Item", "start"), "w_items")
    /\ UNCHANGED <<any_is_class, parked, request, schema_json, model_name, model_cache, models>>

\* the array type built from the compiled item type
ArrayType(schema, item_type) ==
    IF IsStr(item_type) THEN PyStr("List[" \o item_type.s \o "]")
    ELSE ListOf(item_type)

S2TArrayDone ==
    /\ At("s2t", "items")
    /\ Return(ArrayType(Top.node, Top.ret), model_cache)
    /\ UNCHANGED <<any_is_class, parked, request, schema_json, model_name, model_cache, models>>

MaybeConstrained(t, c) == IF DOMAIN c # {} THEN Constrained(t, c) ELSE Builtin(t)

PrimitiveType(schema) ==
    LET schema_type == SchemaType(schema)
    IN  CASE schema_type = "string" ->
                MaybeConstrained("str", _get_string_constraints(schema))
          [] schema_type = "integer" ->
                MaybeConstrained("int", _get_number_constraints(schema))
          [] schema_type = "number" ->
                MaybeConstrained("float", _get_number_constraints(schema))
          [] schema_type = "boolean" -> Builtin("bool")
          [] schema_type = "null" -> NoneType
          [] OTHER -> AnyType

S2TPrimitive ==
    /\ At("s2t", "start")
    /\ Dispatch(Top.node) = "primitive"
    /\ Return(PrimitiveType(Top.node), model_cache)
    /\ UNCHANGED <<any_is_class, parked, request, schema_json, model_name, model_cache, models>>

\* isinstance(v, type); typing.Any is a class from Python 3.11 on
IsPyType(v, anyIsClass) ==
    \/ v.k \in {"model", "builtin", "NoneType"}
    \/ v.k = "Any" /\ anyIsClass

\* create_pydantic_model_from_json_schema, after _schema_to_type has returned:
\* every cached model is rebuilt once (rebuilt counts the model_rebuild calls
\* made on a model), a result that is no class is wrapped.  The
\* interpreter's answer to isinstance(Any, type) is learnt at its first use.
Finish ==
    /\ status = "compiled"
    /\ \E anyIsClass \in BOOLEAN :
        LET rebuilt == [id \in 1..Len(models) |->
                          IF \E n \in DOMAIN model_cache : model_cache[n] = ModelRef(id)
                          THEN [models[id] EXCEPT !.rebuilt = @ + 1]
                          ELSE models[id]]
        IN  /\ any_is_class \in {"unknown", IF anyIsClass THEN "yes" ELSE "no"}
            /\ any_is_class' = IF result = AnyType
                               THEN (IF anyIsClass THEN "yes" ELSE "no")
                               ELSE any_is_class
            /\ IF IsPyType(result, anyIsClass)
               THEN /\ models' = rebuilt
                    /\ result' = result
               ELSE /\ models' = Append(rebuilt,
                           NewModel(model_name,
                                    <<[name |-> "__root__", inner |-> result,
                                       type |-> result,
                                       default |-> "Ellipsis", kwargs |-> <<>>]>>))
                    /\ result' = ModelRef(Len(models) + 1)
    /\ status' = "returned"
    /\ UNCHANGED <<parked, request, schema_json, model_name, error, stack,
                   model_cache, refLog>>

\* the six values of the running call
Context ==
    [status |-> status, error |-> error, stack |-> stack,
     model_cache |-> model_cache, result |-> result, refLog |-> refLog]

\* a call that has been made and has not run a line yet; its model_cache is
\* not bound before line 360 and holds whatever cache is given here
IdleContext(cache) ==
    [status |-> "idle", error |-> "none", stack |-> <<>>,
     model_cache |-> cache, result |-> Absent, refLog |-> <<>>]

\* after a first call has come to its end, two more calls with the same
\* arguments are made, by two threads of the interpreter
StartConcurrentCalls ==
    /\ status \in {"returned", "raised"}
    /\ parked = <<>>
    /\ parked' = <<Context, IdleContext(model_cache)>>
    /\ status' = "idle"
    /\ error' = "none"
    /\ stack' = <<>>
    /\ result' = Absent
    /\ refLog' = <<>>
    /\ UNCHANGED <<any_is_class, request, schema_json, model_name, model_cache, models>>

\* the interpreter switches to another call that has not come to its end: the
\* locals of the running call are put aside, those of the other call come back
SwitchCall ==
    \E i \in 1..Len(parked) :
        /\ parked[i].status \notin {"returned", "raised"}
        /\ parked' = [parked EXCEPT ![i] = Context]
        /\ status' = parked[i].status
        /\ error' = parked[i].error
        /\ stack' = parked[i].stack
        /\ model_cache' = parked[i].model_cache
        /\ result' = parked[i].result
        /\ refLog' = parked[i].refLog
        /\ UNCHANGED <<any_is_class, request, schema_json, model_name, models>>

(***************************************************************************)
(* graph() and load_schema_model.  request.pc is where the request stands; *)
(* schema_name tells whether OutputSchemaName is configured, token what    *)
(* the access token is like, store_ok whether get_store() succeeds, user   *)
(* and global what store.aget answers in the two namespaces; load is how   *)
(* load_schema_model ended and swallowed lists the errors it has caught.   *)
(***************************************************************************)
Missing == [k |-> "missing"]
Fails == [k |-> "fails"]
Stored(doc) == [k |-> "doc", doc |-> doc]

StoreEntries == {Missing, Fails} \cup {Stored(d) : d \in ServiceDocuments}

Request(schema_name, token, store_ok, user, global) ==
    [pc |-> "graph", schema_name |-> schema_name, token |-> token,
     user_id |-> FALSE, store_ok |-> store_ok, user |-> user, global |-> global,
     load |-> "none", swallowed |-> <<>>, queried |-> <<>>,
     response_format |-> PyNone]

\* a faulty variant: graph() catches the not-found error only
LoadRaisedUncaught(exc) ==
    request' = [request EXCEPT !.load = exc,
                               !.response_format = PyNone,
                               !.pc = IF exc = "SchemaNotFound" THEN "build" ELSE "failed"]

\* load_schema_model has raised exc: graph() catches it and goes on without
\* a response format
LoadRaised(exc) ==
    request' = [request EXCEPT !.load = exc,
                               !.response_format = PyNone,
                               !.pc = "build"]

\* the call in flight is left behind
CallDropped ==
    /\ status' = "none"
    /\ error' = "none"
    /\ result' = Absent
    /\ refLog' = <<>>

\* graph(): the schema name is read and the user id is taken from the token
GraphSchema ==
    /\ request.pc = "graph"
    /\ request' = IF request.schema_name
                  THEN [request EXCEPT !.user_id = (request.token = "valid"),
                                       !.pc = "load"]
                  ELSE [request EXCEPT !.pc = "build"]
    /\ UNCHANGED <<any_is_class, parked, schema_json, model_name, status, error,
                   stack, model_cache, models, result, refLog>>

\* a faulty variant: the global namespace is looked up whoever asks
LoadStoreGlobalFirst ==
    /\ request.pc = "load"
    /\ IF request.store_ok
       THEN request' = [request EXCEPT !.pc = "global"]
       ELSE LoadRaised("StoreUnavailable")
    /\ UNCHANGED <<any_is_class, parked, schema_json, model_name, status, error,
                   stack, model_cache, models, result, refLog>>

\* load_schema_model: get_store()
LoadStore ==
    /\ request.pc = "load"
    /\ IF request.store_ok
       THEN request' = [request EXCEPT !.pc = IF request.user_id THEN "user" ELSE "global"]
       ELSE LoadRaised("StoreUnavailable")
    /\ UNCHANGED <<any_is_class, parked, schema_json, model_name, status, error,
                   stack, model_cache, models, result, refLog>>

\* load_schema_model: the lookup in the user's namespace; queried lists the
\* namespaces store.aget has been called with
LoadUser ==
    /\ request.pc = "user"
    /\ IF request.user.k = "doc"
       THEN /\ schema_json' = request.user.doc
            /\ status' = "idle"
            /\ request' = [request EXCEPT !.queried = Append(@, "user"),
                                          !.pc = "user_compile"]
       ELSE /\ request' = [request EXCEPT
                             !.queried = Append(@, "user"),
                             !.swallowed = IF request.user = Fails
                                           THEN Append(@, "StoreError") ELSE @,
                             !.pc = "global"]
            /\ UNCHANGED <<schema_json, status>>
    /\ UNCHANGED <<any_is_class, parked, model_name, error, stack, model_cache,
                   models, result, refLog>>

\* a faulty variant: an error of the user's document leaves load_schema_model
LoadUserCompiledPropagates ==
    /\ request.pc = "user_compile"
    /\ IF status = "returned"
       THEN /\ request' = [request EXCEPT !.load = "returned",
                                          !.response_format = result,
                                          !.pc = "build"]
            /\ UNCHANGED <<status, error, result, refLog>>
       ELSE /\ status = "raised"
            /\ LoadRaised(error)
            /\ CallDropped
    /\ UNCHANGED <<any_is_class, parked, schema_json, model_name, stack,
                   model_cache, models>>

\* load_schema_model: the compilation of the user's document has ended
LoadUserCompiled ==
    /\ request.pc = "user_compile"
    /\ IF status = "returned"
       THEN /\ request' = [request EXCEPT !.load = "returned",
                                          !.response_format = result,
                                          !.pc = "build"]
            /\ UNCHANGED <<status, error, result, refLog>>
       ELSE /\ status = "raised"
            /\ request' = [request EXCEPT !.swallowed = Append(@, error),
                                          !.pc = "global"]
            /\ CallDropped
    /\ UNCHANGED <<any_is_class, parked, schema_json, model_name, stack,
                   model_cache, models>>

\* load_schema_model: the lookup in the global namespace
LoadGlobal ==
    /\ request.pc = "global"
    /\ IF request.global.k = "doc"
       THEN /\ schema_json' = request.global.doc
            /\ status' = "idle"
            /\ request' = [request EXCEPT !.queried = Append(@, "global"),
                                          !.pc = "global_compile"]
       ELSE /\ request' = [request EXCEPT !.queried = Append(@, "global"),
                                          !.load = "SchemaNotFound",
                                          !.response_format = PyNone,
                                          !.pc = "build"]
            /\ UNCHANGED <<schema_json, status>>
    /\ UNCHANGED <<any_is_class, parked, model_name, error, stack, model_cache,
                   models, result, refLog>>

\* load_schema_model: the compilation of the global document has ended
LoadGlobalCompiled ==
    /\ request.pc = "global_compile"
    /\ IF status = "returned"
       THEN /\ request' = [request EXCEPT !.load = "returned",
                                          !.response_format = result,
                                          !.pc = "build"]
            /\ UNCHANGED <<status, error, result, refLog>>
       ELSE /\ status = "raised"
            /\ LoadRaised("SchemaNotFound")
            /\ CallDropped
    /\ UNCHANGED <<any_is_class, parked, schema_json, model_name, stack,
                   model_cache, models>>

\* graph(): the agent is created with the response format and returned
BuildAgent ==
    /\ request.pc = "build"
    /\ request' = [request EXCEPT !.pc = "done"]
    /\ UNCHANGED <<any_is_class, parked, schema_json, model_name, status, error,
                   stack, model_cache, models, result, refLog>>

Next ==
    \/ Create
    \/ S2TRef
    \/ ResolveRef
    \/ S2TAnyOf
    \/ AnyOfStep
    \/ AnyOfGot
    \/ AnyOfFinish
    \/ S2TEnum
    \/ S2TTypeList
    \/ S2TObjectCached
    \/ S2TObjectEnter
    \/ S2TPropCall
    \/ S2TFieldDone
    \/ S2TObjectFinish
    \/ S2TArrayCall
    \/ S2TArrayDone
    \/ S2TPrimitive
    \/ Finish

Spec == Init /\ [][Next]_vars

\* the interpreter runs the call to its end
FairSpec == Spec /\ WF_vars(Next)

Terminated == status \in {"returned", "raised"}

\* three calls with the same arguments: one alone, then two interleaved
InitConcurrent ==
    /\ schema_json \in ServiceDocuments
    /\ model_name \in ModelNames
    /\ status = "idle"
    /\ error = "none"
    /\ stack = <<>>
    /\ model_cache = <<>>
    /\ models = <<>>
    /\ result = Absent
    /\ refLog = <<>>
    /\ any_is_class = "unknown"
    /\ parked = <<>>
    /\ request = DirectCall

\* a graph() request: no call of the compiler has been made yet
InitGraph ==
    /\ schema_json = <<>>
    /\ model_name \in ModelNames
    /\ status = "none"
    /\ error = "none"
    /\ stack = <<>>
    /\ model_cache = <<>>
    /\ models = <<>>
    /\ result = Absent
    /\ refLog = <<>>
    /\ any_is_class = "unknown"
    /\ parked = <<>>
    /\ \E schema_name, store_ok \in BOOLEAN :
       \E token \in {"absent", "invalid", "valid"} :
       \E user, global \in StoreEntries :
          request = Request(schema_name, token, store_ok, user, global)

NextGraph ==
    \/ Next
    \/ GraphSchema
    \/ LoadStore
    \/ LoadUser
    \/ LoadUserCompiled
    \/ LoadGlobal
    \/ LoadGlobalCompiled
    \/ BuildAgent

GraphSpec == InitGraph /\ [][NextGraph]_vars

\* the event loop runs the request to its end
FairGraphSpec == GraphSpec /\ WF_vars(NextGraph)

(***************************************************************************)
(* graph(): the tools of the MCP server are fetched page by page before    *)
(* the schema is looked at.  The request carries the configured names, the *)
(* server's pages (a cursor is the number of the page it leads to, 0 is no *)
(* cursor) and the locals of the loop.                                     *)
(***************************************************************************)
MaxPages == 2
MaxPageTools == 2

ToolNames == {"a", "b"}

SeqsUpTo(S, n) == UNION {[1..k -> S] : k \in 0..n}

McpRequest(configured, pages, last_cursor) ==
    [pc |-> "mcp", configured |-> configured, pages |-> pages,
     last_cursor |-> last_cursor, page_cursor |-> 0, at |-> 0, i |-> 1,
     listed |-> <<>>, fetched |-> <<>>, added |-> {}, tools |-> <<>>,
     failed |-> FALSE]
    @@ Request(FALSE, "absent", TRUE, Missing, Missing)

\* the page list_tools returns for a cursor, and the cursor that page carries
PageAt(cursor) == IF cursor = 0 THEN 1 ELSE cursor

ToolsOf(k) == IF k <= Len(request.pages) THEN request.pages[k] ELSE <<>>

NextCursor(k) ==
    IF k < Len(request.pages) \/ (k = Len(request.pages) /\ request.last_cursor)
    THEN k + 1
    ELSE 0

\* a faulty variant: what has been fetched is kept when the session raises
McpRaisedKeepsFetched ==
    request' = [request EXCEPT !.tools = @ \o request.fetched,
                               !.failed = TRUE,
                               !.pc = "graph"]

\* the except clause around the session: the error is logged, graph() goes on
McpRaised ==
    request' = [request EXCEPT !.failed = TRUE, !.pc = "graph"]

\* the block is entered when tools are configured
McpStart ==
    /\ request.pc = "mcp"
    /\ request' = [request EXCEPT !.pc = IF request.configured = {}
                                         THEN "graph" ELSE "session"]
    /\ UNCHANGED <<any_is_class, parked, schema_json, model_name, status, error,
                   stack, model_cache, models, result, refLog>>

\* the session is opened and initialized
McpInitialize ==
    /\ request.pc = "session"
    /\ \E ok \in BOOLEAN :
          IF ok
          THEN request' = [request EXCEPT !.page_cursor = 0, !.pc = "list"]
          ELSE McpRaised
    /\ UNCHANGED <<any_is_class, parked, schema_json, model_name, status, error,
                   stack, model_cache, models, result, refLog>>

\* session.list_tools(cursor=page_cursor); an empty page ends the loop
McpListTools ==
    /\ request.pc = "list"
    /\ \E ok \in BOOLEAN :
          IF ok
          THEN LET k == PageAt(request.page_cursor)
               IN  request' = [request EXCEPT
                                 !.listed = Append(@, k),
                                 !.at = k,
                                 !.i = 1,
                                 !.pc = IF ToolsOf(k) = <<>> THEN "extend" ELSE "tools"]
          ELSE McpRaised
    /\ UNCHANGED <<any_is_class, parked, schema_json, model_name, status, error,
                   stack, model_cache, models, result, refLog>>

\* the loop over the tools of the page
McpTool ==
    /\ request.pc = "tools"
    /\ request.i <= Len(ToolsOf(request.at))
    /\ LET tool_names_to_find == request.configured
           name == ToolsOf(request.at)[request.i]
       IN  IF \/ tool_names_to_find = {}
              \/ (name \in tool_names_to_find /\ name \notin request.added)
           THEN \E ok \in BOOLEAN :
                   IF ok
                   THEN request' = [request EXCEPT
                                      !.fetched = Append(@, name),
                                      !.added = IF tool_names_to_find # {}
                                                THEN @ \cup {name} ELSE @,
                                      !.i = @ + 1]
                   ELSE McpRaised
           ELSE request' = [request EXCEPT !.i = @ + 1]
    /\ UNCHANGED <<any_is_class, parked, schema_json, model_name, status, error,
                   stack, model_cache, models, result, refLog>>

\* after the page: the next cursor is taken and the loop ends or goes on
McpPageDone ==
    /\ request.pc = "tools"
    /\ request.i > Len(ToolsOf(request.at))
    /\ LET page_cursor == NextCursor(request.at)
           tool_names_to_find == request.configured
       IN  request' = [request EXCEPT
                         !.page_cursor = page_cursor,
                         !.pc = IF page_cursor = 0 THEN "extend"
                                ELSE IF /\ tool_names_to_find # {}
                                        /\ Cardinality(request.added)
                                              = Cardinality(tool_names_to_find)
                                     THEN "extend"
                                     ELSE "list"]
    /\ UNCHANGED <<any_is_class, parked, schema_json, model_name, status, error,
                   stack, model_cache, models, result, refLog>>

\* tools.extend(fetched_mcp_tools_list)
McpExtend ==
    /\ request.pc = "extend"
    /\ request' = [request EXCEPT !.tools = @ \o request.fetched, !.pc = "graph"]
    /\ UNCHANGED <<any_is_class, parked, schema_json, model_name, status, error,
                   stack, model_cache, models, result, refLog>>

InitMcp ==
    /\ schema_json = <<>>
    /\ model_name \in ModelNames
    /\ status = "none"
    /\ error = "none"
    /\ stack = <<>>
    /\ model_cache = <<>>
    /\ models = <<>>
    /\ result = Absent
    /\ refLog = <<>>
    /\ any_is_class = "unknown"
    /\ parked = <<>>
    /\ \E configured \in SUBSET ToolNames :
       \E pages \in SeqsUpTo(SeqsUpTo(ToolNames, MaxPageTools), MaxPages) :
       \E last_cursor \in BOOLEAN :
          request = McpRequest(configured, pages, last_cursor)

NextMcp ==
    \/ McpStart
    \/ McpInitialize
    \/ McpListTools
    \/ McpTool
    \/ McpPageDone
    \/ McpExtend
    \/ GraphSchema
    \/ BuildAgent

McpSpec == InitMcp /\ [][NextMcp]_vars

\* the event loop runs the request to its end
FairMcpSpec == McpSpec /\ WF_vars(NextMcp)

NextConcurrent ==
    \/ Next
    \/ StartConcurrentCalls
    \/ SwitchCall

ConcurrentSpec == InitConcurrent /\ [][NextConcurrent]_vars

(***************************************************************************)
(* Properties of the compiler.                                             *)
(***************************************************************************)
DefTable == Defs(schema_json)

ObjectShaped(n) == n \in DOMAIN DefTable /\ Dispatch(DefTable[n]) = "object"

AllDefsObjectShaped == \A n \in DOMAIN DefTable : ObjectShaped(n)

\* the frames of the objects whose properties are being compiled
ObjectFrames ==
    {i \in 1..Len(stack) :
        stack[i].fn = "s2t" /\ stack[i].pc \in {"props", "w_field", "field"}}

IsModel(v) == v.k = "model"

CachedModels == {n \in DOMAIN model_cache : IsModel(model_cache[n])}

\* C1: when every definition is object-shaped, self-referential or not, the
\* chain of nested calls never reaches the recursion limit and the call of
\* create_pydantic_model_from_json_schema comes to its end, returning or raising.
C1_ObjectDefinitionsTerminate ==
    /\ [](AllDefsObjectShaped => error # "RecursionError")
    /\ (AllDefsObjectShaped ~> Terminated)

\* two object definitions that refer to each other have been compiled and the
\* call has returned
C1_Witness ==
    /\ status = "returned"
    /\ AllDefsObjectShaped
    /\ {"A", "B"} \subseteq CachedModels
    /\ \E i, j \in 1..Len(refLog) :
          /\ refLog[i].def = "A" /\ refLog[i].ret = PyStr("A")
          /\ refLog[j].def = "B" /\ IsModel(refLog[j].ret)

\* C2: no schema document, whatever the shape of its self-referential
\* definitions, makes _resolve_ref / _schema_to_type recurse without bound.
C2_NoUnboundedRecursion == error # "RecursionError"

\* the names a forward reference may be written in
RECURSIVE Forms(_, _)
Forms(n, d) ==
    IF d = 0 THEN {n}
    ELSE LET F == Forms(n, d - 1)
         IN  F \cup {"'" \o t \o "'" : t \in F} \cup {"List[" \o t \o "]" : t \in F}

FormDepth == 3

\* the forward references left in a type
RECURSIVE ForwardTexts(_)
ForwardTexts(t) ==
    IF t.k \in {"pystr", "ForwardRef"} THEN {t.s}
    ELSE IF t.k = "List" THEN ForwardTexts(t.item)
    ELSE IF t.k = "Union" THEN UNION {ForwardTexts(t.args[i]) : i \in 1..Len(t.args)}
    ELSE {}

Denoted(s) == \E m \in CachedModels : s \in Forms(m, FormDepth)

\* C3: when the call has returned, no cache entry is the pending marker and
\* every forward reference left in a field of a cached record names a record
\* that is cached under that name.
C3_NoPlaceholderRemains ==
    status = "returned" =>
        /\ \A n \in DOMAIN model_cache : model_cache[n] # PyNone
        /\ \A n \in CachedModels :
              LET fields == models[model_cache[n].id].fields
              IN  \A j \in 1..Len(fields) :
                     \A s \in ForwardTexts(fields[j].type) : Denoted(s)

C5_PlaceholderBeforeProperties ==
    /\ \A i \in ObjectFrames :
          /\ stack[i].name \in DOMAIN model_cache
          /\ model_cache[stack[i].name] = PyNone
    /\ \A i, j \in ObjectFrames : i # j => stack[i].name # stack[j].name
    /\ \A i \in 1..Len(refLog) :
          refLog[i].entry = PyNone => refLog[i].ret = PyStr(refLog[i].def)

\* a reference to a definition under construction has been resolved while its
\* properties are still being compiled
C5_Witness ==
    /\ Len(refLog) > 0
    /\ refLog[Len(refLog)].entry = PyNone
    /\ \E i \in ObjectFrames : stack[i].name = refLog[Len(refLog)].def

AcceptsNone(t) ==
    \/ t = NoneType
    \/ t.k = "Union" /\ \E i \in 1..Len(t.args) : t.args[i] = NoneType

\* C6: a field of a property in the required set keeps the compiled type and
\* has no default; a field of any other property has the Optional of the
\* compiled type and the default None.
C6_RequiredOrOptional ==
    \A i \in ObjectFrames :
        LET fr == stack[i]
        IN  \A j \in 1..Len(fr.acc) :
               LET f == fr.acc[j]
                   p == Properties(fr.node)[j]
               IN  /\ f.name = p.name
                   /\ IF p.name \in Required(fr.node)
                      THEN f.type = f.inner /\ f.default = "Ellipsis"
                      ELSE /\ f.type = OptionalOf(f.inner)
                           /\ AcceptsNone(f.type)
                           /\ f.default = "None"

\* a record with a required field and an optional one, the optional one of a
\* type that does not admit None by itself
C6_Witness ==
    \E i \in ObjectFrames :
        /\ Len(stack[i].acc) = 2
        /\ stack[i].acc[1].default = "Ellipsis"
        /\ stack[i].acc[2].default = "None"
        /\ ~AcceptsNone(stack[i].acc[2].inner)

\* C7: no resolution of a pointer to a name that is not in the definitions
\* table returns a type, whatever the cache holds under that name.
C7_MissingDefinitionNeverResolves ==
    \A i \in 1..Len(refLog) : refLog[i].def \in DOMAIN DefTable

IsRootRef(nd) == Dispatch(nd) = "ref" /\ nd.ref = RootPointer

\* C8: in the root record, the field of a property {"$ref": "#"} is a forward
\* reference to model_name, and the field of an array property whose items
\* are {"$ref": "#"} is the list of it.
C8_RootRefNamesTheRoot ==
    (Len(stack) > 0 /\ 1 \in ObjectFrames) =>
        \A j \in 1..Len(stack[1].acc) :
            LET s == Properties(stack[1].node)[j].schema
                t == stack[1].acc[j].inner
            IN  /\ IsRootRef(s) =>
                      t \in {PyStr(model_name), PyStr("'" \o model_name \o "'")}
                /\ (Dispatch(s) = "array" /\ IsRootRef(Items(s))) =>
                      t = PyStr("List[" \o model_name \o "]")

\* C9: a node whose kind is unknown never fails the compilation: a "type"
\* list without a recognised kind raises nothing.
C9_UnknownKindNeverFails == error # "IndexError"

HasBounds(nd) ==
    Dispatch(nd) = "array" /\ Has(nd, "minItems") /\ Has(nd, "maxItems")

\* a list of length L is accepted under the length bounds of the Field
AcceptsLength(kwargs, L) ==
    /\ "min_length" \in DOMAIN kwargs => kwargs.min_length <= L
    /\ "max_length" \in DOMAIN kwargs => L <= kwargs.max_length

CarriesBounds(kwargs, nd) ==
    \A L \in 0..MaxLen : AcceptsLength(kwargs, L) <=> (nd.minItems <= L /\ L <= nd.maxItems)

\* the bounded array nodes that describe the value of a property: the
\* property's schema, an anyOf alternative of it, the definition it refers to
ArraysOf(nd) ==
    IF HasBounds(nd) THEN {nd}
    ELSE IF Dispatch(nd) = "anyOf"
    THEN {nd.anyOf[i] : i \in {i \in 1..Len(nd.anyOf) : HasBounds(nd.anyOf[i])}}
    ELSE IF Dispatch(nd) = "ref" /\ IsDefsPointer(nd.ref) /\ DefName(nd.ref) \in DOMAIN DefTable
    THEN {d \in {DefTable[DefName(nd.ref)]} : HasBounds(d)}
    ELSE {}

\* C10: wherever the array node with minItems=m and maxItems=n stands (the
\* property's own schema, an anyOf alternative, a definition reached through
\* $ref), the compiled field accepts a list of length L iff m <= L <= n.
C10_BoundsCarriedEverywhere ==
    \A i \in ObjectFrames :
        \A j \in 1..Len(stack[i].acc) :
            \A a \in ArraysOf(Properties(stack[i].node)[j].schema) :
                CarriesBounds(stack[i].acc[j].kwargs, a)

\* an integer v is accepted by a type that is no union
AcceptsIntAtom(t, v) ==
    IF t.k = "constrained"
    THEN /\ t.t \in {"int", "float"}
         /\ "ge" \in DOMAIN t.c => t.c.ge <= v
         /\ "le" \in DOMAIN t.c => v <= t.c.le
         /\ "gt" \in DOMAIN t.c => t.c.gt < v
         /\ "lt" \in DOMAIN t.c => v < t.c.lt
         /\ "multiple_of" \in DOMAIN t.c => v % t.c.multiple_of = 0
    ELSE t.k = "Any" \/ (t.k = "builtin" /\ t.t \in {"int", "float"})

\* validation of the integer v against a compiled type
AcceptsInt(t, v) ==
    IF t.k = "Union" THEN \E i \in 1..Len(t.args) : AcceptsIntAtom(t.args[i], v)
    ELSE AcceptsIntAtom(t, v)

IntValues == (Minimum - 1)..(Maximum + 1)

\* the kinds a node is declared to have
DeclaredKinds(nd) ==
    IF Has(nd, "types") THEN {nd.types[i] : i \in 1..Len(nd.types)}
    ELSE {SchemaType(nd)}

\* a node declared integer or number that carries minimum, maximum and multipleOf
IsBoundedNumber(nd) ==
    /\ Dispatch(nd) \in {"primitive", "typelist"}
    /\ DeclaredKinds(nd) \cap {"integer", "number"} # {}
    /\ {"minimum", "maximum", "multipleOf"} \subseteq DOMAIN nd

\* C11: the field compiled from a node declared integer or number, by "type"
\* or in a "type" list, with minimum, maximum and multipleOf=k accepts an
\* integer v iff minimum <= v <= maximum and v mod k = 0.
C11_NumericConstraintsKept ==
    \A i \in ObjectFrames :
        \A j \in 1..Len(stack[i].acc) :
            LET nd == Properties(stack[i].node)[j].schema
            IN  IsBoundedNumber(nd) =>
                   \A v \in IntValues :
                      AcceptsInt(stack[i].acc[j].inner, v)
                          <=> (nd.minimum <= v /\ v <= nd.maximum /\ v % nd.multipleOf = 0)

\* C12: the field compiled from a string node with "pattern": p has the
\* constraint pattern = p, whatever format, minLength and maxLength the node
\* carries besides.
C12_PatternCarried ==
    \A i \in ObjectFrames :
        \A j \in 1..Len(stack[i].acc) :
            LET nd == Properties(stack[i].node)[j].schema
                t == stack[i].acc[j].inner
            IN  (Dispatch(nd) = "primitive" /\ SchemaType(nd) = "string" /\ Has(nd, "pattern")) =>
                   /\ t.k = "constrained"
                   /\ "pattern" \in DOMAIN t.c
                   /\ t.c.pattern = nd.pattern

\* the value the running call has just handed to its caller
Delivered == IF Len(stack) = 0 THEN result ELSE Top.ret

\* the types a value may be of: the members of a union, or the type itself
Atoms(t) ==
    IF t.k = "Union" THEN {t.args[i] : i \in 1..Len(t.args)}
    ELSE {TypeConvert(t)}

\* one alternative that is not null, and the null alternative
OptionalShaped(alts) ==
    /\ Len(alts) = 2
    /\ Cardinality({i \in 1..2 : SchemaType(alts[i]) = "null"}) = 1

\* in the frame of _handle_anyof, the compiled type of the alternative that
\* is not null
CompiledAlternative(fr) ==
    fr.acc[CHOOSE i \in 1..2 : SchemaType(fr.node.anyOf[i]) # "null"]

\* C13: _handle_anyof, given one alternative T and the null alternative in
\* either order, returns the optional of the compiled T: a union whose members
\* are NoneType and the members of compile(T), the forward reference to its
\* name when T is a definition under construction.
C13_OptionalOfTheAlternative ==
    [][(/\ At("anyof", "loop")
        /\ Top.i > Len(Top.node.anyOf)
        /\ OptionalShaped(Top.node.anyOf))
          => /\ AcceptsNone(Delivered')
             /\ Atoms(Delivered') = Atoms(CompiledAlternative(Top)) \cup {NoneType}
             /\ IsStr(CompiledAlternative(Top)) =>
                   ForwardRef(CompiledAlternative(Top).s) \in Atoms(Delivered')]_vars

\* the optional of a definition under construction has been handed to the
\* property that refers to it
C13_Witness ==
    \E i \in ObjectFrames :
        /\ stack[i].pc = "field"
        /\ Dispatch(Properties(stack[i].node)[stack[i].i].schema) = "anyOf"
        /\ OptionalShaped(Properties(stack[i].node)[stack[i].i].schema.anyOf)
        /\ stack[i].name = "A"
        /\ Atoms(stack[i].ret) = {ForwardRef("A"), NoneType}

\* validation of the string s against a compiled type
AcceptsStr(t, s) ==
    \E a \in Atoms(t) :
        \/ a.k = "Any"
        \/ a.k \in {"builtin", "constrained"} /\ a.t = "str"
        \/ a.k = "Literal" /\ \E i \in 1..Len(a.values) : a.values[i] = s

StrValues == {"F", "C", "K"}

\* C14: the field compiled from an enum node has the Literal of the listed
\* values in the listed order, and accepts a string iff the enum lists it,
\* whatever type, pattern or bounds the node carries besides.
C14_EnumIsLiteral ==
    \A i \in ObjectFrames :
        \A j \in 1..Len(stack[i].acc) :
            LET nd == Properties(stack[i].node)[j].schema
                t == stack[i].acc[j].inner
            IN  Dispatch(nd) = "enum" =>
                   /\ t = LiteralOf(nd.enum)
                   /\ \A s \in StrValues :
                         AcceptsStr(t, s) <=> \E l \in 1..Len(nd.enum) : nd.enum[l] = s

\* an enum that also declares a type and a pattern the values do not match
\* has been compiled into a field
C14_Witness ==
    \E i \in ObjectFrames :
        \E j \in 1..Len(stack[i].acc) :
            LET nd == Properties(stack[i].node)[j].schema
            IN  /\ Dispatch(nd) = "enum"
                /\ {"type", "pattern"} \subseteq DOMAIN nd
                /\ stack[i].acc[j].inner = LiteralOf(<<"F", "C">>)

\* a compiled type as a tree: a record is written out with its name and its
\* fields, so that two instances of the same structure are the same tree
RECURSIVE Expand(_)
Expand(t) ==
    IF t.k = "model"
    THEN LET m == models[t.id]
         IN  [k |-> "record", name |-> m.name,
              fields |-> [j \in 1..Len(m.fields) |->
                            [name |-> m.fields[j].name,
                             type |-> Expand(m.fields[j].type),
                             default |-> m.fields[j].default,
                             kwargs |-> m.fields[j].kwargs]]]
    ELSE IF t.k = "List" THEN [k |-> "List", item |-> Expand(t.item)]
    ELSE IF t.k = "Union"
    THEN [k |-> "Union", args |-> [j \in 1..Len(t.args) |-> Expand(t.args[j])]]
    ELSE t

\* what a call has ended with
Outcome(c) == [status |-> c.status, error |-> c.error, tree |-> Expand(c.result)]

\* the calls made so far, the running one first
Calls == <<Context>> \o parked

Ended(c) == c.status \in {"returned", "raised"}

RECURSIVE HasReference(_)
HasReference(nd) ==
    \/ Has(nd, "ref")
    \/ \E j \in 1..Len(Properties(nd)) : HasReference(Properties(nd)[j].schema)
    \/ Has(nd, "items") /\ HasReference(nd.items)
    \/ Has(nd, "anyOf") /\ \E j \in 1..Len(nd.anyOf) : HasReference(nd.anyOf[j])
    \/ \E n \in DOMAIN Defs(nd) : HasReference(Defs(nd)[n])

\* C15: two calls of create_pydantic_model_from_json_schema with the same
\* document without references and the same name end alike: both raise the
\* same error, or both return the same tree of record names, fields in order,
\* types, constraints and defaults.
C15_SameArgumentsSameTree ==
    ~HasReference(schema_json) =>
        \A i, j \in 1..Len(Calls) :
            (Ended(Calls[i]) /\ Ended(Calls[j])) => Outcome(Calls[i]) = Outcome(Calls[j])

\* three calls on a document with an inline record have returned
C15_Witness ==
    /\ ~HasReference(schema_json)
    /\ Len(Calls) = 3
    /\ \A i \in 1..3 : Calls[i].status = "returned" /\ IsModel(Calls[i].result)
    /\ \E j \in 1..Len(Properties(schema_json)) :
          Dispatch(Properties(schema_json)[j].schema) = "array"

\* C16: no step of create_pydantic_model_from_json_schema, _schema_to_type,
\* _resolve_ref or _handle_anyof changes the schema document, its "$defs"
\* table or the name it is compiled under.
C16_InputNeverMutated ==
    [][/\ schema_json' = schema_json
       /\ Defs(schema_json') = Defs(schema_json)
       /\ model_name' = model_name]_vars

\* a call on a document with definitions has resolved references, written
\* the cache and returned
C16_Witness ==
    /\ status = "returned"
    /\ DOMAIN Defs(schema_json) # {}
    /\ Len(refLog) > 1
    /\ CachedModels # {}

\* the record instances a call holds in its cache
InstancesOf(c) ==
    {c.model_cache[n] : n \in {n \in DOMAIN c.model_cache : IsModel(c.model_cache[n])}}

\* C17: the calls that have started share no cached instance, and two calls
\* that have ended have ended alike, each with an instance of its own.
C17_CallsShareNothing ==
    \A i, j \in 1..Len(Calls) :
        i # j =>
            /\ (Calls[i].status # "idle" /\ Calls[j].status # "idle") =>
                  InstancesOf(Calls[i]) \cap InstancesOf(Calls[j]) = {}
            /\ (Ended(Calls[i]) /\ Ended(Calls[j])) =>
                  /\ Outcome(Calls[i]) = Outcome(Calls[j])
                  /\ Calls[i].status = "returned" => Calls[i].result # Calls[j].result

\* C18: the value create_pydantic_model_from_json_schema returns is a record;
\* for a root that is a primitive, an enum, an array or a union it is a
\* record named model_name whose single field holds the compiled root type.
C18_RootIsARecord ==
    status = "returned" =>
        /\ IsModel(result)
        /\ Dispatch(schema_json) \in {"primitive", "enum", "array", "anyOf", "typelist"} =>
              /\ models[result.id].name = model_name
              /\ Len(models[result.id].fields) = 1

\* the schema is stored in neither namespace the request looks into
NotFoundAnywhere ==
    /\ request.schema_name
    /\ request.store_ok
    /\ request.token = "valid" => request.user.k = "missing"
    /\ request.global.k = "missing"

LoadFailed == request.load \notin {"none", "returned"}

\* C19: when the schema is in neither namespace, load_schema_model raises
\* the not-found error; whatever load_schema_model raises, graph() goes on
\* with response_format None, and every request ends with the agent built.
C19_MissingSchemaFallsBack ==
    /\ [](request.pc # "failed")
    /\ [](request.pc \in {"build", "done"} =>
            /\ NotFoundAnywhere => request.load = "SchemaNotFound"
            /\ LoadFailed => request.response_format = PyNone)
    /\ (request.pc = "graph" ~> request.pc = "done")

\* a request of a known user for a schema stored nowhere has ended with the
\* agent built without a response format
C19_Witness ==
    /\ request.pc = "done"
    /\ NotFoundAnywhere
    /\ request.token = "valid"
    /\ request.load = "SchemaNotFound"
    /\ request.response_format = PyNone

\* the keywords of a node that _schema_to_type may compile it by
DispatchKeywords(nd) == DOMAIN nd \cap {"ref", "anyOf", "enum", "types", "type"}

\* C20: a node that carries several of "$ref", "anyOf", "enum" and "type" is
\* compiled by the first of them: its compiled type is the type of the node
\* that carries that keyword alone, a reference for "$ref", a union for
\* "anyOf", the Literal for "enum".
C20_EarliestKeywordDecides ==
    \A i \in ObjectFrames :
        \A j, l \in 1..Len(stack[i].acc) :
            LET nd == Properties(stack[i].node)[j].schema
                t == stack[i].acc[j].inner
            IN  /\ Properties(stack[i].node)[l].schema = Earliest(nd) =>
                      t = stack[i].acc[l].inner
                /\ (Has(nd, "ref") /\ nd.ref # RootPointer) =>
                      \E e \in 1..Len(refLog) :
                         /\ refLog[e].def = DefName(nd.ref)
                         /\ \/ refLog[e].ret = t
                            \/ /\ IsStr(refLog[e].ret)
                               /\ t = PyStr("'" \o refLog[e].ret.s \o "'")
                /\ (~Has(nd, "ref") /\ Has(nd, "anyOf")
                      /\ Cardinality(DispatchKeywords(nd)) >= 2) => t.k = "Union"
                /\ (~Has(nd, "ref") /\ ~Has(nd, "anyOf") /\ Has(nd, "enum")) =>
                      t = LiteralOf(nd.enum)

\* a node with "$ref" and its own properties has been compiled to the record
\* of the definition, like the node with the "$ref" alone
C20_Witness ==
    \E i \in ObjectFrames :
        /\ Len(stack[i].acc) = 2
        /\ {"ref", "type", "properties"} \subseteq DOMAIN Properties(stack[i].node)[1].schema
        /\ Properties(stack[i].node)[2].schema = Earliest(Properties(stack[i].node)[1].schema)
        /\ IsModel(stack[i].acc[1].inner)
        /\ models[stack[i].acc[1].inner.id].name = "A"
        /\ stack[i].acc[2].inner = stack[i].acc[1].inner

\* the compiled alternatives are different types, none of them a union
PlainAlternatives(types) ==
    /\ \A j \in 1..Len(types) : types[j].k # "Union"
    /\ \A j, l \in 1..Len(types) : j # l => TypeConvert(types[j]) # TypeConvert(types[l])

\* C21: _handle_anyof returns a single compiled alternative as it is, a
\* forward name as the forward name; two or more alternatives are returned
\* as their Union, whose members are the compiled alternatives in the order
\* of the list.
C21_SingleAlternativeCollapses ==
    [][(/\ At("anyof", "loop")
        /\ Top.i > Len(Top.node.anyOf)
        /\ Len(Top.acc) >= 1)
          => /\ Len(Top.acc) = 1 => Delivered' = Top.acc[1]
             /\ Len(Top.acc) >= 2 =>
                   /\ Delivered' = UnionOf(Top.acc)
                   /\ PlainAlternatives(Top.acc) =>
                         /\ Delivered'.k = "Union"
                         /\ Delivered'.args =
                               [j \in 1..Len(Top.acc) |-> TypeConvert(Top.acc[j])]]_vars

\* a list whose only alternative is a definition under construction has
\* returned the forward name, and the field has been built from it
C21_Witness ==
    \E i \in ObjectFrames :
        /\ stack[i].name = "A"
        /\ Len(stack[i].acc) = 1
        /\ Dispatch(Properties(stack[i].node)[1].schema) = "anyOf"
        /\ Len(Properties(stack[i].node)[1].schema.anyOf) = 1
        /\ stack[i].acc[1].inner = PyStr("'A'")

\* C22: a reference to a name that model_cache holds returns the entry (the
\* forward name when the entry is the pending marker), and after every
\* resolution of '#/$defs/N' that returned, model_cache has an entry for N,
\* whatever the shape of the definition.
C22_ResolutionLeavesAnEntry ==
    \A i \in 1..Len(refLog) :
        /\ refLog[i].entry # Absent
        /\ refLog[i].entry = PyNone => refLog[i].ret = PyStr(refLog[i].def)
        /\ IsModel(refLog[i].entry) => refLog[i].ret = refLog[i].entry

\* a cached model one of whose fields holds a forward name: rebuilding it
\* substitutes
Substituting ==
    {id \in 1..Len(models) :
        /\ \E n \in DOMAIN model_cache : model_cache[n] = ModelRef(id)
        /\ \E j \in 1..Len(models[id].fields) :
              ForwardTexts(models[id].fields[j].type) # {}}

\* C23: the walk over model_cache is repeated until a walk substitutes
\* nothing: when the first walk had a forward name to substitute, every
\* cached model has been rebuilt a second time before the call returns.
C23_FinalizeRepeatsUntilStable ==
    (status = "returned" /\ Substituting # {}) =>
        \A id \in 1..Len(models) :
            (\E n \in DOMAIN model_cache : model_cache[n] = ModelRef(id))
                => models[id].rebuilt >= 2

\* a forward name in a field of a cached model that names no cached model
Dangling ==
    \E n \in CachedModels :
        LET fields == models[model_cache[n].id].fields
        IN  \E j \in 1..Len(fields) :
               \E s \in ForwardTexts(fields[j].type) : ~Denoted(s)

\* C24: finalization fails exactly when a forward name denotes no type of
\* model_cache once _schema_to_type has returned, and the failure reaches
\* the caller of create_pydantic_model_from_json_schema.
C24_FinalizeRaisesOnDangling ==
    [][status = "compiled" => (status' = "raised" <=> Dangling)]_vars

\* the name and the node the call in frame i + 1 was given by frame i
NamedByCaller(i) ==
    LET caller == stack[i]
        callee == stack[i + 1]
    IN  /\ (caller.fn = "s2t" /\ caller.pc = "w_field") =>
              LET p == Properties(caller.node)[caller.i]
              IN  /\ callee.fn = "s2t"
                  /\ callee.name = caller.name \o "_" \o p.name
                  /\ callee.node = p.schema
        /\ (caller.fn = "anyof" /\ caller.pc = "w_alt"
              /\ SchemaType(caller.node.anyOf[caller.i]) = "object") =>
              /\ callee.fn = "s2t"
              /\ callee.name = caller.name \o "Option" \o ToString(caller.i - 1)
              /\ callee.node = caller.node.anyOf[caller.i]
        /\ caller.fn = "ref" =>
              /\ callee.fn = "s2t"
              /\ callee.name = DefName(caller.node.ref)
              /\ callee.node = Defs(schema_json)[callee.name]

\* C25: a property p of record N is compiled under 'N_p', an object
\* alternative of an anyOf with base name B under 'BOption<i>' (i counted
\* from 0), a referenced definition under its own name; the fields of a
\* record are the properties of its node, in the order of the schema, and
\* the record is named as its node was.
C25_NamesAndFieldOrder ==
    /\ \A i \in 1..(Len(stack) - 1) : NamedByCaller(i)
    /\ \A i \in ObjectFrames :
          /\ Len(stack[i].acc) <= Len(Properties(stack[i].node))
          /\ \A j \in 1..Len(stack[i].acc) :
                stack[i].acc[j].name = Properties(stack[i].node)[j].name
    /\ \A n \in CachedModels : models[model_cache[n].id].name = n

\* a property that is a reference is being compiled under the definition's
\* name, inside a record that has already built one field
C25_Witness ==
    \E i \in 1..(Len(stack) - 3) :
        /\ stack[i].fn = "s2t" /\ stack[i].pc = "w_field"
        /\ stack[i + 1].name = stack[i].name \o "_" \o Properties(stack[i].node)[stack[i].i].name
        /\ stack[i + 2].fn = "ref"
        /\ stack[i + 3].name = "A"
        /\ stack[i + 3].pc = "props"

\* C26: _resolve_ref raises the root-recursion error for the pointer '#',
\* and rejects with an error every pointer that is neither '#' nor
\* '#/$defs/<name>'; either error ends the whole call, and no definition is
\* compiled for such a pointer.
C26_OnlyDefsPointersResolve ==
    [][At("ref", "start") =>
          LET ref == Top.node.ref
          IN  /\ ref = RootPointer =>
                    status' = "raised" /\ error' = "RootRecursion"
              /\ (ref # RootPointer /\ ~(IsDefsPointer(ref) /\ Len(ref) = 3)) =>
                    status' = "raised"]_vars

\* load_schema_model is past the user's namespace without a model from it
NoUserModel ==
    \/ request.user.k # "doc"
    \/ Len(request.swallowed) > 0

\* C27: with a user id the user's namespace is looked up first and the
\* global one after it, without a user id the global one alone; a user's
\* schema that compiles is the model returned and the global namespace is
\* then never looked up; the global namespace is looked up only when there is
\* no user id or the user's namespace gave no model.
C27_UserNamespaceFirst ==
    request.pc # "direct" =>
        LET q == request.queried
        IN  /\ q \in {<<>>, <<"user">>, <<"global">>, <<"user", "global">>}
            /\ Len(q) >= 1 => (q[1] = "user" <=> request.user_id)
            /\ (request.user_id /\ q = <<"user", "global">>) => NoUserModel
            /\ (Len(q) >= 1 /\ request.user_id /\ request.user.k = "doc"
                  /\ request.swallowed = <<>> /\ request.pc \in {"build", "done"}) =>
                  /\ q = <<"user">>
                  /\ request.load = "returned"
                  /\ schema_json = request.user.doc
                  /\ request.response_format = result

\* both namespaces hold a schema, the user's has compiled, and the agent has
\* been built with it
C27_Witness ==
    /\ request.pc = "done"
    /\ request.user_id
    /\ request.user.k = "doc" /\ request.global.k = "doc"
    /\ request.user.doc # request.global.doc
    /\ request.queried = <<"user">>
    /\ IsModel(request.response_format)

\* what load_schema_model can end with
LoadOutcomes == {"none", "returned", "SchemaNotFound", "StoreUnavailable"}

\* C29: an error of the lookup in the user's namespace, or of the compilation
\* of the schema found there, does not leave load_schema_model: it is
\* swallowed, the global namespace is looked up next, and when that gives no
\* model the only error raised is the not-found error.
C29_UserErrorsAreSwallowed ==
    request.pc # "direct" =>
        /\ request.load \in LoadOutcomes
        /\ (request.pc = "user_compile" /\ status = "raised") => request.load = "none"
        /\ Len(request.swallowed) > 0 =>
              /\ request.pc \in {"global", "global_compile", "build", "done"}
              /\ request.pc # "global" => request.queried = <<"user", "global">>
              /\ request.pc \in {"build", "done"} =>
                    \/ request.load = "returned" /\ request.response_format = result
                                                 /\ schema_json = request.global.doc
                    \/ request.load = "SchemaNotFound" /\ request.response_format = PyNone

\* the user's schema failed to compile, the global namespace held nothing,
\* and the agent has been built without a response format
C29_Witness ==
    /\ request.pc = "done"
    /\ request.user.k = "doc"
    /\ Len(request.swallowed) = 1
    /\ request.swallowed[1] # "StoreError"
    /\ request.global = Missing
    /\ request.load = "SchemaNotFound"

\* the entry model_cache holds under the name of the object node about to
\* be compiled was made for that node: the record has the node's properties,
\* the pending marker belongs to a running call on the node
EntryMadeFor(name, nd) ==
    LET e == model_cache[name]
    IN  IF IsModel(e)
        THEN LET fields == models[e.id].fields
             IN  /\ Len(fields) = Len(Properties(nd))
                 /\ \A j \in 1..Len(fields) : fields[j].name = Properties(nd)[j].name
        ELSE \E i \in ObjectFrames : stack[i].name = name /\ stack[i].node = nd

\* C28: an object node whose name model_cache already holds is never given
\* the record, or the pending marker, of a different node.
C28_NoTwoNodesUnderOneName ==
    (/\ At("s2t", "start")
     /\ Dispatch(Top.node) = "object"
     /\ Top.name \in DOMAIN model_cache) => EntryMadeFor(Top.name, Top.node)

\* the names on the server's pages 1..k
RECURSIVE NamesUpTo(_)
NamesUpTo(k) ==
    IF k = 0 THEN {}
    ELSE {ToolsOf(k)[j] : j \in 1..Len(ToolsOf(k))} \cup NamesUpTo(k - 1)

\* after page k no further page is asked for
LastPage(k) ==
    \/ ToolsOf(k) = <<>>
    \/ NextCursor(k) = 0
    \/ request.configured \subseteq NamesUpTo(k)

McpEnded == request.pc \in {"graph", "build", "done"}

====
